---- MODULE Spec2Model ----
(***************************************************************************)
(* Model of MarketTrendAnalyzer (src/src/etl_factory/ai/market_analyzer.py):*)
(* the technical-indicator engine, the rule-based recommendation scorer    *)
(* and the portfolio aggregation.                                          *)
(*                                                                         *)
(* Floating-point values are modelled as exact rationals extended with the *)
(* IEEE special values NaN, +inf and -inf (a "Number").  Comparisons with  *)
(* NaN are false, x/0 is +-inf and 0/0 is NaN, as in numpy/pandas float    *)
(* arithmetic.                                                             *)
(***************************************************************************)
EXTENDS Integers, Sequences, FiniteSets, TLC

VARIABLES
    pc,                     \* which call has been made so far
    rsi, trend, price_change, volatility, llm_insights,
                            \* arguments of _generate_recommendation
    recommendation_score,   \* its local accumulator, as left at the end of the call
    recommendation,         \* its return value
    llm_insights2,          \* the llm_insights argument of a second call, other arguments equal
    recommendation2,        \* the return value of the second call
    trend2,                 \* the trend argument of a second call, rsi and price_change equal
    recommendation_score2,  \* the accumulator as the second call left it
    df,                     \* the caller's DataFrame handed to calculate_technical_indicators
    df_before,              \* the rows of that DataFrame when the call was made
    fill_method_pad,        \* whether the installed pandas pads NaN in pct_change by default
    technical_indicators,   \* the DataFrame returned by calculate_technical_indicators,
                            \* or handed to generate_market_insights by the caller
    llm_client,             \* self.llm_client: "none" or "client"
    insights,               \* the value returned by generate_market_insights
    steps,                  \* the steps generate_market_insights went through, in order
    llm_calls,              \* number of requests sent to the LLM provider
    analyses,               \* the map handed to _get_portfolio_recommendation by a caller,
                            \* or the local map analyze_multiple_stocks builds
    portfolio_recommendation,   \* the value it returned
    stock_data_dict,        \* the map ticker -> data handed to analyze_multiple_stocks
    remaining,              \* the tickers its loop has not reached yet, in dict order
    portfolio               \* the value analyze_multiple_stocks returned

scorerVars == <<rsi, trend, price_change, volatility, llm_insights,
                recommendation_score, recommendation, llm_insights2, recommendation2,
                trend2, recommendation_score2>>

engineVars == <<df, df_before, fill_method_pad, technical_indicators>>

insightVars == <<llm_client, insights, steps, llm_calls>>

portfolioVars == <<analyses, portfolio_recommendation, stock_data_dict, remaining,
                   portfolio>>

vars == <<pc, scorerVars, engineVars, insightVars, portfolioVars>>

-----------------------------------------------------------------------------
(* Numbers: exact rationals with NaN and the two infinities.               *)

RECURSIVE GCD(_, _)
GCD(a, b) == IF b = 0 THEN a ELSE GCD(b, a % b)

Abs(x) == IF x < 0 THEN -x ELSE x

NaN  == [k |-> "nan",  n |-> 0, d |-> 1]
PInf == [k |-> "pinf", n |-> 0, d |-> 1]
NInf == [k |-> "ninf", n |-> 0, d |-> 1]

\* a float has a bounded mantissa: numerator and denominator of a Number stay
\* at or below MaxMantissa, so every sum and product of two Numbers is computed
\* without overflow
MaxMantissa == 30000

RECURSIVE Nearest(_, _, _, _, _, _)
\* the last continued-fraction convergent of n/d (n >= 0, d >= 0) that fits the
\* mantissa, h1/k1 and h0/k0 being the two convergents before n/d's expansion
Nearest(n, d, h1, k1, h0, k0) ==
    IF d = 0 THEN <<h1, k1>>
    ELSE LET a == n \div d
         IN  IF a > MaxMantissa \/ a * h1 + h0 > MaxMantissa \/ a * k1 + k0 > MaxMantissa
             THEN <<h1, k1>>
             ELSE Nearest(d, n % d, a * h1 + h0, a * k1 + k0, h1, k1)

\* the float with sign s and magnitude the convergent c = <<numerator,
\* denominator>>; a magnitude beyond the mantissa overflows to an infinity
Rounded(s, c) ==
    IF c[2] = 0 THEN [k |-> IF s > 0 THEN "pinf" ELSE "ninf", n |-> 0, d |-> 1]
    ELSE [k |-> "fin", n |-> s * c[1], d |-> c[2]]

\* the float with sign s and magnitude N/D in lowest terms: exact when it fits
\* the mantissa, else the nearest convergent that does
Fitted(s, N, D) ==
    IF N <= MaxMantissa /\ D <= MaxMantissa THEN [k |-> "fin", n |-> s * N, d |-> D]
    ELSE Rounded(s, Nearest(N, D, 1, 0, 0, 1))

\* the float n/d (d # 0), in lowest terms with a positive denominator
Rat(n, d) ==
    Fitted(IF (d < 0) = (n < 0) THEN 1 ELSE -1,
           Abs(n) \div GCD(Abs(n), Abs(d)),
           Abs(d) \div GCD(Abs(n), Abs(d)))

Num(i) == [k |-> "fin", n |-> i, d |-> 1]

IsNaN(a) == a.k = "nan"
IsFin(a) == a.k = "fin"

\* a standard deviation that is irrational: [k |-> "surd", n, d] is sqrt(n/d), n/d > 0
IsSurd(a) == a.k = "surd"

\* the square of a finite or surd number
SquareOf(a) == IF IsSurd(a) THEN Rat(a.n, a.d) ELSE Rat(a.n * a.n, a.d * a.d)

\* a < b for finite a and b
LtFin(a, b) == a.n * b.d < b.n * a.d

Rank(a) == IF a.k = "ninf" THEN -1 ELSE IF a.k = "pinf" THEN 1 ELSE 0

\* a < b for two squares, finite or overflowed to +inf
LtSquares(a, b) == IF IsFin(a) /\ IsFin(b) THEN LtFin(a, b) ELSE Rank(a) < Rank(b)

\* a < b; false when either side is NaN
Lt(a, b) ==
    /\ ~IsNaN(a)
    /\ ~IsNaN(b)
    /\ IF IsFin(a) /\ IsFin(b) THEN LtFin(a, b)
       ELSE IF Rank(a) # 0 \/ Rank(b) # 0 THEN Rank(a) < Rank(b)
       ELSE IF IsFin(a) /\ a.n < 0 THEN TRUE
       ELSE IF IsFin(b) /\ b.n < 0 THEN FALSE
       ELSE LtSquares(SquareOf(a), SquareOf(b))

Gt(a, b) == Lt(b, a)

\* a <= b; false when either side is NaN
Le(a, b) == ~IsNaN(a) /\ ~IsNaN(b) /\ ~Lt(b, a)

Ge(a, b) == Le(b, a)

Neg(a) ==
    IF IsNaN(a) THEN NaN
    ELSE IF a.k = "pinf" THEN NInf
    ELSE IF a.k = "ninf" THEN PInf
    ELSE Rat(-a.n, a.d)

Add(a, b) ==
    IF IsNaN(a) \/ IsNaN(b) THEN NaN
    ELSE IF IsFin(a) /\ IsFin(b) THEN Rat(a.n * b.d + b.n * a.d, a.d * b.d)
    ELSE IF IsFin(a) THEN b
    ELSE IF IsFin(b) THEN a
    ELSE IF a.k = b.k THEN a
    ELSE NaN

Sub(a, b) == Add(a, Neg(b))

\* sign of a non-NaN number: -1, 0 or 1
Sign(a) ==
    IF a.k = "pinf" THEN 1
    ELSE IF a.k = "ninf" THEN -1
    ELSE IF a.n > 0 THEN 1 ELSE IF a.n < 0 THEN -1 ELSE 0

Mul(a, b) ==
    IF IsNaN(a) \/ IsNaN(b) THEN NaN
    ELSE IF IsFin(a) /\ IsFin(b) THEN Rat(a.n * b.n, a.d * b.d)
    ELSE IF Sign(a) * Sign(b) = 0 THEN NaN
    ELSE IF Sign(a) * Sign(b) > 0 THEN PInf ELSE NInf

\* float division: x/0 is +-inf, 0/0 is NaN, no exception
Div(a, b) ==
    IF IsNaN(a) \/ IsNaN(b) THEN NaN
    ELSE IF IsFin(a) /\ IsFin(b) THEN
        IF b.n = 0
        THEN IF a.n = 0 THEN NaN ELSE IF a.n > 0 THEN PInf ELSE NInf
        ELSE Rat(a.n * b.d, a.d * b.n)
    ELSE IF IsFin(a) THEN Num(0)
    ELSE IF IsFin(b) THEN
        IF Sign(a) * (IF Sign(b) < 0 THEN -1 ELSE 1) > 0 THEN PInf ELSE NInf
    ELSE NaN

RECURSIVE ISqrtIn(_, _, _)
\* the largest r in lo..hi with r * r <= n (lo * lo <= n)
ISqrtIn(n, lo, hi) ==
    IF lo >= hi THEN lo
    ELSE LET mid == (lo + hi + 1) \div 2
         IN  IF mid * mid <= n THEN ISqrtIn(n, mid, hi) ELSE ISqrtIn(n, lo, mid - 1)

ISqrt(n) == ISqrtIn(n, 0, IF n < 46340 THEN n ELSE 46340)

\* numpy sqrt of a variance (never negative): exact when rational, else a surd
Sqrt(a) ==
    IF ~IsFin(a) THEN a
    ELSE LET rn == ISqrt(a.n)
             rd == ISqrt(a.d)
         IN  IF rn * rn = a.n /\ rd * rd = a.d THEN Rat(rn, rd)
             ELSE [k |-> "surd", n |-> a.n, d |-> a.d]

\* a standard deviation times a non-negative integer factor
Scale(a, factor) ==
    IF IsSurd(a) THEN Sqrt(Rat(a.n * factor * factor, a.d)) ELSE Mul(a, Num(factor))

\* Python min(a, b): b if b < a, else a
Min(a, b) == IF Lt(b, a) THEN b ELSE a

\* the integer nearest to n/d (d > 0), ties to the even one
RoundHalfEven(n, d) ==
    LET f == n \div d
        r == n % d
    IN  IF 2 * r < d THEN f
        ELSE IF 2 * r > d THEN f + 1
        ELSE IF f % 2 = 0 THEN f ELSE f + 1

\* Round2 returning the value as a percentage
Round2Percent(x) == IF IsFin(x) THEN Rat(RoundHalfEven(x.n * 100, x.d), 1) ELSE x

\* Python round(x, 2)
Round2(x) == IF IsFin(x) THEN Rat(RoundHalfEven(x.n * 100, x.d), 100) ELSE x

\* Python f"{x:.1f}" and f"{x:.2f}": the digits printed, as the scaled integer
Format1f(x) == IF IsFin(x) THEN [k |-> "fin", digits |-> RoundHalfEven(x.n * 10, x.d)]
               ELSE [k |-> x.k, digits |-> 0]

Format2f(x) == IF IsFin(x) THEN [k |-> "fin", digits |-> RoundHalfEven(x.n * 100, x.d)]
               ELSE [k |-> x.k, digits |-> 0]

-----------------------------------------------------------------------------
(* RecommendationScorer: MarketTrendAnalyzer._generate_recommendation      *)

\* ScoreAfterRsi with the middle band open at 30 (30 < rsi <= 50)
ScoreAfterRsiOpenBand(score, r) ==
    IF Lt(r, Num(30)) THEN score + 2
    ELSE IF Gt(r, Num(70)) THEN score - 2
    ELSE IF Lt(Num(30), r) /\ Le(r, Num(50)) THEN score + 1
    ELSE score

\* ScoreAfterRsi testing "not rsi >= 30" for oversold, which a missing rsi passes
ScoreAfterRsiNotAtLeast(score, r) ==
    IF ~Ge(r, Num(30)) THEN score + 2
    ELSE IF Gt(r, Num(70)) THEN score - 2
    ELSE IF Le(Num(30), r) /\ Le(r, Num(50)) THEN score + 1
    ELSE score

\* lines 291-297: the RSI rule ladder applied to the accumulator
ScoreAfterRsi(score, r) ==
    IF Lt(r, Num(30)) THEN score + 2
    ELSE IF Gt(r, Num(70)) THEN score - 2
    ELSE IF Le(Num(30), r) /\ Le(r, Num(50)) THEN score + 1
    ELSE score

\* ScoreAfterTrend scoring against the trend
ScoreAfterTrendContrarian(score, t) ==
    IF t = "bullish" THEN score - 1
    ELSE IF t = "bearish" THEN score + 1
    ELSE score

\* lines 299-303
ScoreAfterTrend(score, t) ==
    IF t = "bullish" THEN score + 1
    ELSE IF t = "bearish" THEN score - 1
    ELSE score

\* lines 305-309
ScoreAfterPriceChange(score, change) ==
    IF Gt(change, Num(5)) THEN score - 1
    ELSE IF Lt(change, Num(-5)) THEN score + 1
    ELSE score

\* lines 288-309: recommendation_score, starting at 0
RecommendationScore(r, t, change) ==
    ScoreAfterPriceChange(ScoreAfterTrend(ScoreAfterRsi(0, r), t), change)

\* ConfidenceAfterVolatility with the penalty applied from volatility >= 3
ConfidenceAfterVolatilityInclusive(vol) ==
    IF Ge(vol, Num(3)) THEN Sub(Rat(1, 2), Rat(1, 5)) ELSE Rat(1, 2)

\* lines 289, 311-313: confidence before the action is determined
ConfidenceAfterVolatility(vol) ==
    IF Gt(vol, Num(3)) THEN Sub(Rat(1, 2), Rat(1, 5)) ELSE Rat(1, 2)

\* DetermineAction with strict thresholds (score > 2, score < -2)
DetermineActionStrict(score, confidence, vol) ==
    IF score > 2 THEN
        [action |-> "BUY",
         confidence |-> Min(Rat(9, 10), Add(confidence, Rat(1, 5))),
         holding_period |-> IF Lt(vol, Num(2)) THEN "medium-term (1-4 weeks)"
                            ELSE "short-term (1-7 days)"]
    ELSE IF score < -2 THEN
        [action |-> "SELL",
         confidence |-> Min(Rat(9, 10), Add(confidence, Rat(1, 5))),
         holding_period |-> "immediate"]
    ELSE
        [action |-> "WAIT",
         confidence |-> Rat(3, 5),
         holding_period |-> "monitor for 1-2 weeks"]

\* DetermineAction holding a BUY medium-term up to and including volatility 2
DetermineActionHoldInclusive(score, confidence, vol) ==
    IF score >= 2 THEN
        [action |-> "BUY",
         confidence |-> Min(Rat(9, 10), Add(confidence, Rat(1, 5))),
         holding_period |-> IF Le(vol, Num(2)) THEN "medium-term (1-4 weeks)"
                            ELSE "short-term (1-7 days)"]
    ELSE IF score <= -2 THEN
        [action |-> "SELL",
         confidence |-> Min(Rat(9, 10), Add(confidence, Rat(1, 5))),
         holding_period |-> "immediate"]
    ELSE
        [action |-> "WAIT",
         confidence |-> Rat(3, 5),
         holding_period |-> "monitor for 1-2 weeks"]

\* DetermineAction raising the confidence of BUY and SELL by 0.4 instead of 0.2
DetermineActionBoosted(score, confidence, vol) ==
    IF score >= 2 THEN
        [action |-> "BUY",
         confidence |-> Min(Rat(9, 10), Add(confidence, Rat(2, 5))),
         holding_period |-> IF Lt(vol, Num(2)) THEN "medium-term (1-4 weeks)"
                            ELSE "short-term (1-7 days)"]
    ELSE IF score <= -2 THEN
        [action |-> "SELL",
         confidence |-> Min(Rat(9, 10), Add(confidence, Rat(2, 5))),
         holding_period |-> "immediate"]
    ELSE
        [action |-> "WAIT",
         confidence |-> Rat(3, 5),
         holding_period |-> "monitor for 1-2 weeks"]

\* lines 315-327: action, confidence and holding period from the score
DetermineAction(score, confidence, vol) ==
    IF score >= 2 THEN
        [action |-> "BUY",
         confidence |-> Min(Rat(9, 10), Add(confidence, Rat(1, 5))),
         holding_period |-> IF Lt(vol, Num(2)) THEN "medium-term (1-4 weeks)"
                            ELSE "short-term (1-7 days)"]
    ELSE IF score <= -2 THEN
        [action |-> "SELL",
         confidence |-> Min(Rat(9, 10), Add(confidence, Rat(1, 5))),
         holding_period |-> "immediate"]
    ELSE
        [action |-> "WAIT",
         confidence |-> Rat(3, 5),
         holding_period |-> "monitor for 1-2 weeks"]

\* lines 329-349: the fixed catalog
Alternatives ==
    << [strategy |-> "Index Funds (S&P 500, NASDAQ)", risk |-> "Low-Medium",
        expected_return |-> "7-10% annually"],
       [strategy |-> "Bond ETFs", risk |-> "Low",
        expected_return |-> "3-5% annually"],
       [strategy |-> "Dividend Stocks", risk |-> "Medium",
        expected_return |-> "4-7% annually"] >>

\* line 356: the reasoning string, as its three formatted parts
Reasoning(r, t, change) ==
    [rsi |-> Format1f(r), trend |-> t, price_change |-> Format2f(change)]

\* GenerateRecommendation letting a narrative that names an action vote in the score
GenerateRecommendationNarrativeVote(r, t, change, vol, insights_text) ==
    LET vote  == IF insights_text = "Recommendation: BUY" THEN 1
                 ELSE IF insights_text = "Recommendation: SELL" THEN -1 ELSE 0
        score == RecommendationScore(r, t, change) + vote
        d     == DetermineAction(score, ConfidenceAfterVolatility(vol), vol)
    IN  [action |-> d.action,
         confidence |-> Round2(d.confidence),
         holding_period |-> d.holding_period,
         alternatives |-> Alternatives,
         reasoning |-> Reasoning(r, t, change)]

\* lines 282-357: the value returned by _generate_recommendation
GenerateRecommendation(r, t, change, vol, insights_text) ==
    LET score == RecommendationScore(r, t, change)
        d     == DetermineAction(score, ConfidenceAfterVolatility(vol), vol)
    IN  [action |-> d.action,
         confidence |-> Round2(d.confidence),
         holding_period |-> d.holding_period,
         alternatives |-> Alternatives,
         reasoning |-> Reasoning(r, t, change)]

-----------------------------------------------------------------------------
(* IndicatorEngine: MarketTrendAnalyzer.calculate_technical_indicators     *)
(*                                                                         *)
(* A standard deviation is kept exact: a rational when its square root is  *)
(* one, a surd otherwise.  The rows carry the columns of lines 73-83 and   *)
(* 92-116; the ema_12, ema_26 and macd columns of lines 84-90 are read by   *)
(* none of the operations below and are not part of a row.  Closes are     *)
(* positive prices or text, so no column is infinite.                      *)

SmaShortWindow == 20
SmaLongWindow == 50
RsiWindow == 14
BbWindow == 20
VolumeWindow == 20
VolatilityWindow == 20
MinPeriods == 1

\* a raw cell of the caller's DataFrame: a number, or text that is not a number
Text == [k |-> "text", n |-> 0, d |-> 1]

\* lines 73-76: pd.to_numeric(column, errors='coerce') on one cell
ToNumeric(v) == IF v.k = "text" THEN NaN ELSE v

\* lines 73-76: the four assignments, made on the caller's DataFrame itself
Coerce(frame) ==
    [i \in 1..Len(frame) |->
        [frame[i] EXCEPT !.close = ToNumeric(@), !.volume = ToNumeric(@),
                         !.high = ToNumeric(@), !.low = ToNumeric(@)]]

RECURSIVE SortOrdersOf(_, _)
\* the orders in which the rows `rest` of the frame may follow one another:
\* any row with the least timestamp first
SortOrdersOf(frame, rest) ==
    IF rest = {} THEN {<< >>}
    ELSE LET least == {j \in rest :
                         \A k \in rest : frame[j].timestamp <= frame[k].timestamp}
         IN  UNION {{<<j>> \o o : o \in SortOrdersOf(frame, rest \ {j})} : j \in least}

\* line 79: the row orders sort_values('timestamp') may return.  The default
\* kind is quicksort, which is not stable: rows with equal timestamps come
\* out in any order.
SortOrders(frame) == SortOrdersOf(frame, 1..Len(frame))

\* the order a stable sort returns: ties keep their original relative order
StableOrder(frame) ==
    CHOOSE p \in SortOrders(frame) :
        \A i, j \in 1..Len(frame) :
            (i < j /\ frame[p[i]].timestamp = frame[p[j]].timestamp) => p[i] < p[j]

\* line 79: the sorted frame with a fresh index
SortValues(frame, order) == [i \in 1..Len(frame) |-> frame[order[i]]]

Column(rows, name) == [i \in 1..Len(rows) |-> rows[i][name]]

\* the rows of a rolling window ending at row i
Window(i, size) == (IF i - size + 1 < 1 THEN 1 ELSE i - size + 1)..i

RECURSIVE SumBetween(_, _, _, _)
\* the sum of the cells of xs at the indices of S from lo to hi, by halves
SumBetween(xs, S, lo, hi) ==
    IF lo = hi THEN (IF lo \in S THEN xs[lo] ELSE Num(0))
    ELSE LET mid == (lo + hi) \div 2
         IN  Add(SumBetween(xs, S, lo, mid), SumBetween(xs, S, mid + 1, hi))

\* the sum of the cells of xs at the indices of S
SumOver(xs, S) ==
    IF S = {} THEN Num(0)
    ELSE SumBetween(xs, S, CHOOSE j \in S : \A k \in S : j <= k,
                           CHOOSE j \in S : \A k \in S : k <= j)

\* RollingMean counting a NaN cell as zero
RollingMeanZeroFilled(xs, size, i) ==
    LET valid  == {j \in Window(i, size) : ~IsNaN(xs[j])}
        filled == [j \in 1..Len(xs) |-> IF IsNaN(xs[j]) THEN Num(0) ELSE xs[j]]
    IN  IF Cardinality(valid) < MinPeriods THEN NaN
        ELSE Div(SumOver(filled, Window(i, size)), Num(Cardinality(Window(i, size))))

\* RollingMean giving no value until the window is full
RollingMeanFullWindow(xs, size, i) ==
    LET valid == {j \in Window(i, size) : ~IsNaN(xs[j])}
    IN  IF Cardinality(valid) < size THEN NaN
        ELSE Div(SumOver(xs, valid), Num(Cardinality(valid)))

\* rolling(window=size, min_periods=1).mean() at row i: NaN cells are left out
RollingMean(xs, size, i) ==
    LET valid == {j \in Window(i, size) : ~IsNaN(xs[j])}
    IN  IF Cardinality(valid) < MinPeriods THEN NaN
        ELSE Div(SumOver(xs, valid), Num(Cardinality(valid)))

\* rolling(window=size, min_periods=1).std() at row i: the sample standard
\* deviation (ddof=1) of the cells that are not NaN; NaN for a single cell
RollingStd(xs, size, i) ==
    LET valid == {j \in Window(i, size) : ~IsNaN(xs[j])}
        n     == Cardinality(valid)
        mean  == Div(SumOver(xs, valid), Num(n))
        sq    == [j \in 1..Len(xs) |->
                    IF j \in valid THEN Mul(Sub(xs[j], mean), Sub(xs[j], mean)) ELSE NaN]
    IN  IF n < MinPeriods THEN NaN
        ELSE Sqrt(Div(SumOver(sq, valid), Num(n - 1)))

\* line 93: close.diff()
Delta(close, i) == IF i = 1 THEN NaN ELSE Sub(close[i], close[i - 1])

\* line 94: delta.where(delta > 0, 0)
Gain(close) ==
    [i \in 1..Len(close) |->
        IF Gt(Delta(close, i), Num(0)) THEN Delta(close, i) ELSE Num(0)]

\* Loss without the negation
LossNotNegated(close) ==
    [i \in 1..Len(close) |->
        IF Lt(Delta(close, i), Num(0)) THEN Delta(close, i) ELSE Num(0)]

\* line 95: -delta.where(delta < 0, 0)
Loss(close) ==
    [i \in 1..Len(close) |->
        IF Lt(Delta(close, i), Num(0)) THEN Neg(Delta(close, i)) ELSE Num(0)]

\* Rsi with the ratio taken as loss over gain
RsiInverted(close, i) ==
    LET gain == RollingMean(Gain(close), RsiWindow, i)
        loss == RollingMean(Loss(close), RsiWindow, i)
        rs   == Div(loss, gain)
    IN  Sub(Num(100), Div(Num(100), Add(Num(1), rs)))

\* lines 94-97
Rsi(close, i) ==
    LET gain == RollingMean(Gain(close), RsiWindow, i)
        loss == RollingMean(Loss(close), RsiWindow, i)
        rs   == Div(gain, loss)
    IN  Sub(Num(100), Div(Num(100), Add(Num(1), rs)))

\* the last close at or before row i that is not NaN (NaN when there is none)
RECURSIVE FFill(_, _)
FFill(close, i) ==
    IF i < 1 THEN NaN
    ELSE IF ~IsNaN(close[i]) THEN close[i]
    ELSE FFill(close, i - 1)

\* line 110: close.pct_change(); pandas before 3.0 pads NaN first by default
PctChange(close, i, pad) ==
    IF i = 1 THEN NaN
    ELSE LET cur  == IF pad THEN FFill(close, i) ELSE close[i]
             prev == IF pad THEN FFill(close, i - 1) ELSE close[i - 1]
         IN  Sub(Div(cur, prev), Num(1))

\* lines 102-103: bb_middle + 2 * bb_std and bb_middle - 2 * bb_std (sign is 1
\* or -1); with an irrational bb_std the band is kept as its two parts
Band(middle, std, sign) ==
    IF IsNaN(middle) \/ IsNaN(std) THEN NaN
    ELSE IF IsSurd(std) THEN
        [k |-> "band", n |-> middle.n, d |-> middle.d, sign |-> sign,
         off |-> Scale(std, 2)]
    ELSE Add(middle, Mul(Num(sign), Scale(std, 2)))

\* Trend calling a close at its sma_20 bullish
TrendAtOrAbove(close, sma_20) ==
    IF Lt(close, sma_20) THEN "bearish"
    ELSE IF Ge(close, sma_20) THEN "bullish"
    ELSE "neutral"

\* lines 114-116
Trend(close, sma_20) ==
    IF Lt(close, sma_20) THEN "bearish"
    ELSE IF Gt(close, sma_20) THEN "bullish"
    ELSE "neutral"

EmaFastSpan == 12
EmaSlowSpan == 26
MacdSignalSpan == 9

\* ewm(span, adjust=False): the smoothing factor 2 / (span + 1)
Alpha(span) == Rat(2, span + 1)

\* one row of ewm(adjust=False, ignore_na=False).mean(): the running average
\* and the weight of the past. The first value that is not NaN seeds the
\* average; a NaN cell leaves the average as it is and still ages the past
EwmStep(before, cur, alpha) ==
    LET old_wt == Mul(before.old_wt, Sub(Num(1), alpha))
    IN  IF IsNaN(before.weighted) THEN [weighted |-> cur, old_wt |-> Num(1)]
        ELSE IF IsNaN(cur) THEN [weighted |-> before.weighted, old_wt |-> old_wt]
        ELSE [weighted |-> Div(Add(Mul(old_wt, before.weighted), Mul(alpha, cur)),
                               Add(old_wt, alpha)),
              old_wt |-> Num(1)]

\* the running averages before the first row
EwmStart == [weighted |-> NaN, old_wt |-> Num(1)]

\* lines 84-90, one row: the running averages of close (spans 12 and 26) and
\* of macd (span 9) after a row with the given close
MacdStep(before, close) ==
    LET ema_12 == EwmStep(before.ema_12, close, Alpha(EmaFastSpan))
        ema_26 == EwmStep(before.ema_26, close, Alpha(EmaSlowSpan))
        macd   == Sub(ema_12.weighted, ema_26.weighted)
    IN  [ema_12 |-> ema_12, ema_26 |-> ema_26, macd |-> macd,
         signal |-> EwmStep(before.signal, macd, Alpha(MacdSignalSpan))]

\* the running averages before the first row
MacdStart ==
    [ema_12 |-> EwmStart, ema_26 |-> EwmStart, macd |-> NaN, signal |-> EwmStart]

RECURSIVE MacdStates(_, _, _, _)
\* the running averages after each of the rows first..last, `before` being
\* those after row first - 1: the rows are gone through in order, the first
\* half of them and then the second half from where the first half ended
MacdStates(close, before, first, last) ==
    IF first = last THEN <<MacdStep(before, close[first])>>
    ELSE LET mid  == (first + last) \div 2
             left == MacdStates(close, before, first, mid)
         IN  left \o MacdStates(close, left[Len(left)], mid + 1, last)

\* lines 84-90: the columns ema_12, ema_26, macd, macd_signal and
\* macd_histogram, one record a row
MacdColumns(close) ==
    LET states == IF Len(close) = 0 THEN << >>
                  ELSE MacdStates(close, MacdStart, 1, Len(close))
    IN  [i \in 1..Len(close) |->
            [ema_12 |-> states[i].ema_12.weighted,
             ema_26 |-> states[i].ema_26.weighted,
             macd |-> states[i].macd,
             macd_signal |-> states[i].signal.weighted,
             macd_histogram |-> Sub(states[i].macd, states[i].signal.weighted)]]

\* lines 81-83 and 92-116: row i of the result but for the columns of lines
\* 84-90, from the sorted rows
IndicatorRow(rows, i, pad) ==
    LET close  == Column(rows, "close")
        volume == Column(rows, "volume")
        pct    == [j \in 1..Len(rows) |-> PctChange(close, j, pad)]
        sma_20 == RollingMean(close, SmaShortWindow, i)
        middle == RollingMean(close, BbWindow, i)
        bb_std == RollingStd(close, BbWindow, i)
        vsma   == RollingMean(volume, VolumeWindow, i)
    IN  [timestamp |-> rows[i].timestamp,
         close |-> rows[i].close,
         volume |-> rows[i].volume,
         high |-> rows[i].high,
         low |-> rows[i].low,
         sma_20 |-> sma_20,
         sma_50 |-> RollingMean(close, SmaLongWindow, i),
         rsi |-> Rsi(close, i),
         bb_middle |-> middle,
         bb_upper |-> Band(middle, bb_std, 1),
         bb_lower |-> Band(middle, bb_std, -1),
         volume_sma |-> vsma,
         volume_ratio |-> Div(rows[i].volume, vsma),
         price_change |-> pct[i],
         volatility |-> RollingStd(pct, VolatilityWindow, i),
         trend |-> Trend(rows[i].close, sma_20)]

KeepRow(row) == ~IsNaN(row.rsi)

\* CalculateTechnicalIndicators dropping the rows whose rsi window is not yet filled
CalculateTechnicalIndicatorsDropNa(frame, order, pad) ==
    IF Len(frame) = 0 THEN frame
    ELSE LET rows == SortValues(Coerce(frame), order)
             ema  == MacdColumns(Column(rows, "close"))
         IN  SelectSeq([i \in 1..Len(rows) |-> IndicatorRow(rows, i, pad) @@ ema[i]],
                       KeepRow)

\* lines 69-118: the DataFrame returned for the caller's frame, `order` being
\* the row order the sort produced
CalculateTechnicalIndicators(frame, order, pad) ==
    IF Len(frame) = 0 THEN frame
    ELSE LET rows == SortValues(Coerce(frame), order)
             ema  == MacdColumns(Column(rows, "close"))
         IN  [i \in 1..Len(rows) |-> IndicatorRow(rows, i, pad) @@ ema[i]]

-----------------------------------------------------------------------------
(* MarketTrendAnalyzer.generate_market_insights and its helpers            *)

RecentRows == 30

\* OldestRecentRow taking the first row of the whole frame
OldestRowOfFrame(frame) == frame[1]

\* lines 142, 146: recent_data.iloc[0], the first row of tail(30)
OldestRecentRow(frame) ==
    frame[IF Len(frame) > RecentRows THEN Len(frame) - RecentRows + 1 ELSE 1]

\* whether x > v, v a number or a band kept as its two parts
Above(x, v) ==
    IF v.k = "band"
    THEN LET middle == Rat(v.n, v.d)
         IN  IF v.sign = 1 THEN Gt(Sub(x, middle), v.off) ELSE Lt(Sub(middle, x), v.off)
    ELSE Gt(x, v)

\* whether x < v, v a number or a band kept as its two parts
Below(x, v) ==
    IF v.k = "band"
    THEN LET middle == Rat(v.n, v.d)
         IN  IF v.sign = 1 THEN Lt(Sub(x, middle), v.off) ELSE Gt(Sub(middle, x), v.off)
    ELSE Lt(x, v)

\* lines 268-280
GetBbPosition(data) ==
    IF Above(data.close, data.bb_upper) THEN "above_upper"
    ELSE IF Below(data.close, data.bb_lower) THEN "below_lower"
    ELSE "within_bands"

\* lines 196-221: the prompt, as the values written into it
CreateAnalysisPrompt(ticker, current_price, price_change_30d, vol, r, t, technical_data) ==
    [ticker |-> ticker, current_price |-> current_price,
     price_change_30d |-> price_change_30d, volatility |-> vol, rsi |-> r, trend |-> t,
     sma_20 |-> technical_data.sma_20, sma_50 |-> technical_data.sma_50,
     bb_position |-> GetBbPosition(technical_data)]

\* what a configured LLM provider may do with a request: answer with a text,
\* raise, or (gemini branch) answer without the text being returned
LlmResponses == {"Recommendation: BUY", "Recommendation: SELL", "raises", "no return"}

\* lines 223-266: the text returned, and the number of requests sent
GetLlmAnalysis(client, prompt, response) ==
    IF client = "none"
    THEN [text |-> "LLM not configured. Using rule-based analysis only.", requests |-> 0]
    ELSE IF response = "raises"
    THEN [text |-> "LLM analysis unavailable: error", requests |-> 1]
    ELSE IF response = "no return"
    THEN [text |-> "LLM analysis unavailable", requests |-> 1]
    ELSE [text |-> response, requests |-> 1]

\* lines 135-139
InsufficientData ==
    [error |-> "Insufficient data for analysis",
     recommendation |-> "WAIT",
     confidence |-> Num(0)]

\* InsightsOf letting an exception of the LLM provider end the analysis
InsightsOfLlmUncaught(ticker, frame, client, response) ==
    LET latest == frame[Len(frame)]
        oldest == OldestRecentRow(frame)
        current_price == latest.close
        price_change_30d ==
            Mul(Div(Sub(current_price, oldest.close), oldest.close), Num(100))
        vol == Scale(latest.volatility, 100)
        prompt == CreateAnalysisPrompt(ticker, current_price, price_change_30d,
                                       vol, latest.rsi, latest.trend, latest)
        llm == GetLlmAnalysis(client, prompt, response)
        rec == GenerateRecommendation(latest.rsi, latest.trend, price_change_30d,
                                      vol, llm.text)
    IN  IF client # "none" /\ response = "raises"
        THEN [value |-> [error |-> "LLM call failed", recommendation |-> "WAIT",
                         confidence |-> Num(0)],
              steps |-> <<"check_empty", "metrics", "prompt", "llm">>,
              requests |-> llm.requests]
        ELSE
        [value |->
            [ticker |-> ticker,
             current_price |-> current_price,
             price_change_30d |-> price_change_30d,
             volatility |-> vol,
             rsi |-> latest.rsi,
             trend |-> latest.trend,
             technical_summary |->
                 [sma_20 |-> latest.sma_20, sma_50 |-> latest.sma_50,
                  macd |-> IF "macd" \in DOMAIN latest THEN latest.macd ELSE Num(0),
                  rsi |-> latest.rsi, bb_position |-> GetBbPosition(latest)],
             llm_insights |-> llm.text,
             recommendation |-> rec.action,
             confidence |-> rec.confidence,
             holding_period |-> rec.holding_period,
             alternative_strategies |-> rec.alternatives],
         steps |-> <<"check_empty", "metrics", "prompt", "llm", "recommendation">>,
         requests |-> llm.requests]

\* lines 141-194: the value returned for a frame that is not empty
InsightsOf(ticker, frame, client, response) ==
    LET latest == frame[Len(frame)]
        oldest == OldestRecentRow(frame)
        current_price == latest.close
        price_change_30d ==
            Mul(Div(Sub(current_price, oldest.close), oldest.close), Num(100))
        vol == Scale(latest.volatility, 100)
        prompt == CreateAnalysisPrompt(ticker, current_price, price_change_30d,
                                       vol, latest.rsi, latest.trend, latest)
        llm == GetLlmAnalysis(client, prompt, response)
        rec == GenerateRecommendation(latest.rsi, latest.trend, price_change_30d,
                                      vol, llm.text)
    IN  [value |->
            [ticker |-> ticker,
             current_price |-> current_price,
             price_change_30d |-> price_change_30d,
             volatility |-> vol,
             rsi |-> latest.rsi,
             trend |-> latest.trend,
             technical_summary |->
                 [sma_20 |-> latest.sma_20, sma_50 |-> latest.sma_50,
                  macd |-> IF "macd" \in DOMAIN latest THEN latest.macd ELSE Num(0),
                  rsi |-> latest.rsi, bb_position |-> GetBbPosition(latest)],
             llm_insights |-> llm.text,
             recommendation |-> rec.action,
             confidence |-> rec.confidence,
             holding_period |-> rec.holding_period,
             alternative_strategies |-> rec.alternatives],
         steps |-> <<"check_empty", "metrics", "prompt", "llm", "recommendation">>,
         requests |-> llm.requests]

\* GenerateMarketInsights asking the LLM before it looks at the frame
GenerateMarketInsightsLlmFirst(ticker, frame, client, response) ==
    IF Len(frame) = 0
    THEN [value |-> InsufficientData,
          steps |-> <<"prompt", "llm", "check_empty">>,
          requests |-> GetLlmAnalysis(client, [ticker |-> ticker], response).requests]
    ELSE InsightsOf(ticker, frame, client, response)

\* lines 133-194: the value returned, the steps gone through and the number of
\* LLM requests sent, for the frame technical_indicators
GenerateMarketInsights(ticker, frame, client, response) ==
    IF Len(frame) = 0
    THEN [value |-> InsufficientData, steps |-> <<"check_empty">>, requests |-> 0]
    ELSE InsightsOf(ticker, frame, client, response)

-----------------------------------------------------------------------------
(* PortfolioAggregator: analyze_multiple_stocks, _get_portfolio_recommendation *)

\* a.get('confidence', 0.5)
ConfidenceOf(a) == IF "confidence" \in DOMAIN a THEN a.confidence ELSE Rat(1, 2)

\* sum(1 for a in analyses.values() if a.get('recommendation') == action)
CountOf(map, action) ==
    Cardinality({t \in DOMAIN map : map[t].recommendation = action})

\* line 403: np.mean of the confidences; nan for an empty list (a warning, no error)
AvgConfidence(map) ==
    Div(SumOver([t \in DOMAIN map |-> ConfidenceOf(map[t])], DOMAIN map),
        Num(Cardinality(DOMAIN map)))

\* line 404
BuyRatio(map) ==
    IF DOMAIN map # {} THEN Div(Num(CountOf(map, "BUY")), Num(Cardinality(DOMAIN map)))
    ELSE Num(0)

\* PortfolioLadder with the thresholds of the first two rungs inclusive
PortfolioLadderInclusive(buy_ratio, avg_confidence) ==
    IF Ge(buy_ratio, Rat(6, 10)) /\ Gt(avg_confidence, Rat(7, 10)) THEN
        [action |-> "AGGRESSIVE_BUY", suggested_allocation |-> "70% stocks, 30% bonds"]
    ELSE IF Ge(buy_ratio, Rat(4, 10)) THEN
        [action |-> "MODERATE_BUY", suggested_allocation |-> "50% stocks, 50% bonds"]
    ELSE IF Lt(buy_ratio, Rat(3, 10)) THEN
        [action |-> "DEFENSIVE", suggested_allocation |-> "30% stocks, 70% bonds/cash"]
    ELSE
        [action |-> "WAIT", suggested_allocation |-> "40% stocks, 60% bonds/cash"]

\* lines 406-429
PortfolioLadder(buy_ratio, avg_confidence) ==
    IF Gt(buy_ratio, Rat(6, 10)) /\ Gt(avg_confidence, Rat(7, 10)) THEN
        [action |-> "AGGRESSIVE_BUY", suggested_allocation |-> "70% stocks, 30% bonds"]
    ELSE IF Gt(buy_ratio, Rat(4, 10)) THEN
        [action |-> "MODERATE_BUY", suggested_allocation |-> "50% stocks, 50% bonds"]
    ELSE IF Lt(buy_ratio, Rat(3, 10)) THEN
        [action |-> "DEFENSIVE", suggested_allocation |-> "30% stocks, 70% bonds/cash"]
    ELSE
        [action |-> "WAIT", suggested_allocation |-> "40% stocks, 60% bonds/cash"]

\* lines 401-429
GetPortfolioRecommendation(map) == PortfolioLadder(BuyRatio(map), AvgConfidence(map))

\* PortfolioSummary calling a tie between BUY and SELL bullish
PortfolioSummaryTieBullish(map) ==
    LET buy_count  == CountOf(map, "BUY")
        sell_count == CountOf(map, "SELL")
        wait_count == CountOf(map, "WAIT")
    IN  [total_stocks |-> Cardinality(DOMAIN map),
         buy_recommendations |-> buy_count,
         sell_recommendations |-> sell_count,
         wait_recommendations |-> wait_count,
         overall_sentiment |->
             IF buy_count >= sell_count THEN "bullish"
             ELSE IF sell_count > buy_count THEN "bearish"
             ELSE "neutral"]

\* lines 382-396
PortfolioSummary(map) ==
    LET buy_count  == CountOf(map, "BUY")
        sell_count == CountOf(map, "SELL")
        wait_count == CountOf(map, "WAIT")
    IN  [total_stocks |-> Cardinality(DOMAIN map),
         buy_recommendations |-> buy_count,
         sell_recommendations |-> sell_count,
         wait_recommendations |-> wait_count,
         overall_sentiment |->
             IF buy_count > sell_count THEN "bullish"
             ELSE IF sell_count > buy_count THEN "bearish"
             ELSE "neutral"]

\* what the provider does with the requests of a batch of tickers: it answers
\* with a text at odds with the rules, or raises
BatchLlmResponses == {"Recommendation: SELL", "raises"}

\* AnalysesOfTicker giving every ticker after the first analysed one the
\* analysis of the ticker analysed before it
AnalysesOfTickerCarriedOver(ticker, data, pad, client) ==
    IF DOMAIN analyses = {}
    THEN {GenerateMarketInsights(ticker, CalculateTechnicalIndicators(data, order, pad),
                                 client, response).value :
             order \in SortOrders(data), response \in BatchLlmResponses}
    ELSE {[analyses[t] EXCEPT !.ticker = ticker] : t \in DOMAIN analyses}

\* lines 375-378: the analyses one ticker's data can give, over the row orders
\* the sort may return and what the LLM provider may answer
AnalysesOfTicker(ticker, data, pad, client) ==
    {GenerateMarketInsights(ticker, CalculateTechnicalIndicators(data, order, pad),
                            client, response).value :
        order \in SortOrders(data), response \in BatchLlmResponses}

\* lines 388-399: the value returned for the map of analyses built by the loop
PortfolioResult(map) ==
    [individual_analyses |-> map,
     portfolio_summary |-> PortfolioSummary(map),
     portfolio_recommendation |-> GetPortfolioRecommendation(map)]

-----------------------------------------------------------------------------
(* Inputs of the scorer specification                                      *)

\* rsi is a float: values on both sides of every band edge, the edges, and NaN
RsiInputs ==
    {Rat(n, 10) : n \in {0, 299, 300, 301, 400, 499, 500, 501, 600, 699, 700, 701, 1000}}
    \cup {NaN}

TrendInputs == {"bullish", "bearish", "neutral"}

\* price_change_30d in percent
PriceChangeInputs ==
    {Rat(n, 10) : n \in {-1000, -51, -50, -49, 0, 49, 50, 51, 1000}}
    \cup {NaN, PInf, NInf}

\* volatility in percent (a standard deviation: never negative)
VolatilityInputs ==
    {Rat(n, 10) : n \in {0, 19, 20, 21, 29, 30, 31, 100}} \cup {NaN}

\* the llm_insights argument: the fallback text, an error text, LLM texts
NarrativeInputs ==
    {"None",
     "LLM not configured. Using rule-based analysis only.",
     "LLM analysis unavailable",
     "Recommendation: BUY",
     "Recommendation: SELL"}

NoRecommendation == [none |-> TRUE]

NoInsights == [none |-> TRUE]

\* the engine has not been given a frame
EngineIdle ==
    /\ df = << >>
    /\ df_before = << >>
    /\ fill_method_pad = TRUE
    /\ technical_indicators = << >>

\* generate_market_insights has not been called
InsightsIdle ==
    /\ llm_client = "none"
    /\ insights = NoInsights
    /\ steps = << >>
    /\ llm_calls = 0

NoPortfolio == [none |-> TRUE]

\* neither portfolio entry point has been called
PortfolioIdle ==
    /\ analyses = << >>
    /\ portfolio_recommendation = NoPortfolio
    /\ stock_data_dict = << >>
    /\ remaining = << >>
    /\ portfolio = NoPortfolio

\* _generate_recommendation has not been called directly
ScorerIdle ==
    /\ rsi = NaN
    /\ trend = "neutral"
    /\ price_change = NaN
    /\ volatility = NaN
    /\ llm_insights = "None"
    /\ recommendation_score = 0
    /\ recommendation = NoRecommendation
    /\ llm_insights2 = "None"
    /\ recommendation2 = NoRecommendation
    /\ trend2 = "neutral"
    /\ recommendation_score2 = 0

InitScorer ==
    /\ pc = "start"
    /\ rsi \in RsiInputs
    /\ trend \in TrendInputs
    /\ price_change \in PriceChangeInputs
    /\ volatility \in VolatilityInputs
    /\ llm_insights \in NarrativeInputs
    /\ recommendation_score = 0
    /\ recommendation = NoRecommendation
    /\ llm_insights2 = llm_insights
    /\ recommendation2 = NoRecommendation
    /\ trend2 = trend
    /\ recommendation_score2 = 0
    /\ EngineIdle
    /\ InsightsIdle
    /\ PortfolioIdle

\* a call of _generate_recommendation(rsi, trend, price_change, volatility, llm_insights)
CallGenerateRecommendation ==
    /\ pc = "start"
    /\ pc' = "recommended"
    /\ recommendation_score' = RecommendationScore(rsi, trend, price_change)
    /\ recommendation' = GenerateRecommendation(rsi, trend, price_change,
                                                volatility, llm_insights)
    /\ UNCHANGED <<rsi, trend, price_change, volatility, llm_insights,
                   llm_insights2, recommendation2, trend2, recommendation_score2,
                   engineVars, insightVars, portfolioVars>>

\* a second call with the same rsi, trend, price_change and volatility and any narrative
CallGenerateRecommendationAgain ==
    /\ pc = "recommended"
    /\ pc' = "recommended_twice"
    /\ \E text \in NarrativeInputs :
          /\ llm_insights2' = text
          /\ recommendation2' = GenerateRecommendation(rsi, trend, price_change,
                                                       volatility, text)
    /\ UNCHANGED <<rsi, trend, price_change, volatility, llm_insights,
                   recommendation_score, recommendation, trend2, recommendation_score2,
                   engineVars, insightVars, portfolioVars>>

\* a second call with the same rsi, price_change, volatility and narrative and any trend
CallGenerateRecommendationOtherTrend ==
    /\ pc = "recommended"
    /\ pc' = "recommended_other_trend"
    /\ \E t \in TrendInputs :
          /\ trend2' = t
          /\ recommendation_score2' = RecommendationScore(rsi, t, price_change)
          /\ recommendation2' = GenerateRecommendation(rsi, t, price_change,
                                                       volatility, llm_insights)
    /\ UNCHANGED <<rsi, trend, price_change, volatility, llm_insights,
                   recommendation_score, recommendation, llm_insights2,
                   engineVars, insightVars, portfolioVars>>

NextScorer ==
    \/ CallGenerateRecommendation
    \/ CallGenerateRecommendationAgain
    \/ CallGenerateRecommendationOtherTrend

SpecScorer == InitScorer /\ [][NextScorer]_vars

-----------------------------------------------------------------------------
(* generate_market_insights called on a frame supplied by the caller       *)

Ticker == "AAPL"

\* a row of a caller's frame with the columns generate_market_insights reads
FrameRow(ts, close, r, t, vol) ==
    [timestamp |-> ts, close |-> close, volume |-> Num(10), high |-> close, low |-> close,
     sma_20 |-> close, sma_50 |-> close, rsi |-> r,
     bb_middle |-> close, bb_upper |-> close, bb_lower |-> close,
     volume_sma |-> Num(10), volume_ratio |-> Num(1),
     price_change |-> Num(0), volatility |-> vol, trend |-> t]

\* closes of the oldest and the latest row: 30-day changes of 0, 5, 6, -5, -6
\* percent, and an oldest close that is missing
ClosePairs ==
    {<<Num(100), Num(100)>>, <<Num(100), Num(105)>>, <<Num(100), Num(106)>>,
     <<Num(100), Num(95)>>, <<Num(100), Num(94)>>, <<NaN, Num(100)>>}

\* volatility column: a fraction, 100 times smaller than the percentage
VolatilityFractions ==
    {Rat(n, 1000) : n \in {0, 19, 20, 21, 29, 30, 31, 100}} \cup {NaN}

FrameInputs ==
    {<< >>}
    \cup {<<FrameRow(1, c[1], Num(50), "neutral", NaN), FrameRow(2, c[2], r, t, vol)>> :
            c \in ClosePairs, r \in RsiInputs, t \in TrendInputs, vol \in VolatilityFractions}

InitInsights ==
    /\ pc = "frame"
    /\ ScorerIdle
    /\ df = << >>
    /\ df_before = << >>
    /\ fill_method_pad = TRUE
    /\ technical_indicators \in FrameInputs
    /\ llm_client \in {"none", "client"}
    /\ insights = NoInsights
    /\ steps = << >>
    /\ llm_calls = 0
    /\ PortfolioIdle

\* a call of generate_market_insights(ticker, stock_data, technical_indicators)
CallGenerateMarketInsights ==
    /\ pc \in {"frame", "indicators"}
    /\ pc' = "insights"
    /\ \E response \in LlmResponses :
          LET r == GenerateMarketInsights(Ticker, technical_indicators, llm_client, response)
          IN  /\ insights' = r.value
              /\ steps' = r.steps
              /\ llm_calls' = llm_calls + r.requests
    /\ UNCHANGED <<llm_client, scorerVars, engineVars, portfolioVars>>

NextInsights == CallGenerateMarketInsights

SpecInsights == InitInsights /\ [][NextInsights]_vars

-----------------------------------------------------------------------------
(* calculate_technical_indicators called on a caller's DataFrame, and      *)
(* generate_market_insights on its result                                  *)

MaxLen == 3

TimestampInputs == {1, 2}

CloseInputs == {Num(1), Num(2), Text}

\* volume, high and low of a Bar: numbers, or text in all three
RestInputs == {<<Num(10), Num(3), Num(1)>>, <<Text, Text, Text>>}

\* a Bar as the caller supplies it
Bar(ts, close, volume, high, low) ==
    [timestamp |-> ts, open |-> Num(1), high |-> high, low |-> low,
     close |-> close, volume |-> volume]

BarInputs ==
    {Bar(ts, c, r[1], r[2], r[3]) :
        ts \in TimestampInputs, c \in CloseInputs, r \in RestInputs}
    \ {Bar(ts, c, Text, Text, Text) : ts \in TimestampInputs, c \in {Num(2), Text}}

SeriesInputs == UNION {[1..n -> BarInputs] : n \in 0..MaxLen}

InitEngine ==
    /\ pc = "series"
    /\ ScorerIdle
    /\ df \in SeriesInputs
    /\ df_before = df
    /\ fill_method_pad \in BOOLEAN
    /\ technical_indicators = << >>
    /\ InsightsIdle
    /\ PortfolioIdle

\* a call of calculate_technical_indicators(df): the coercions are written
\* into the caller's frame, the sorted and augmented copy is returned
CallCalculateTechnicalIndicators ==
    /\ pc = "series"
    /\ pc' = "indicators"
    /\ df' = IF Len(df) = 0 THEN df ELSE Coerce(df)
    /\ \E order \in SortOrders(df) :
          technical_indicators' = CalculateTechnicalIndicators(df, order, fill_method_pad)
    /\ UNCHANGED <<df_before, fill_method_pad, scorerVars, insightVars, portfolioVars>>

NextEngine == CallCalculateTechnicalIndicators \/ CallGenerateMarketInsights

SpecEngine == InitEngine /\ [][NextEngine]_vars

-----------------------------------------------------------------------------
(* calculate_technical_indicators and generate_market_insights on series   *)
(* that fill the 14-, 20-, 30- and 50-row windows, and on the shortest ones *)

\* the Series with the given closes, one Bar a day from day 1
SeriesOf(closes) ==
    [i \in 1..Len(closes) |->
        Bar(i, Num(closes[i]), Num(10), Num(closes[i] + 1), Num(closes[i] - 1))]

\* the rows of a Series as a caller holding them newest first supplies them
Reversed(series) == [i \in 1..Len(series) |-> series[Len(series) + 1 - i]]

\* 30 closes rising from 100 to 150: by 1 and a last step of 22; a first step
\* of 22 and then by 1; by 1 to 108 and then by 2
RisingLate == [i \in 1..30 |-> IF i < 30 THEN 99 + i ELSE 150]

RisingEarly == [i \in 1..30 |-> IF i = 1 THEN 100 ELSE 120 + i]

RisingSteady == [i \in 1..30 |-> IF i <= 9 THEN 99 + i ELSE 90 + 2 * i]

\* 30 closes falling from 150 to 100
Falling == [i \in 1..30 |-> IF i = 1 THEN 150 ELSE 130 - i]

\* n equal closes
Constant(n) == [i \in 1..n |-> 100]

\* 55 closes wavering between 100 and 112
Wavering == [i \in 1..55 |-> 100 + ((7 * i) % 13)]

LongSeriesInputs ==
    {SeriesOf(RisingLate), SeriesOf(RisingEarly), SeriesOf(RisingSteady),
     Reversed(SeriesOf(RisingLate)), SeriesOf(Falling),
     SeriesOf(Constant(20)), SeriesOf(Constant(21)), Reversed(SeriesOf(Constant(21))),
     SeriesOf(Wavering), SeriesOf(<<100>>), SeriesOf(<<100, 103>>),
     SeriesOf(<<0>>), <<Bar(1, Text, Num(10), Num(3), Num(1))>>}

InitLongSeries ==
    /\ pc = "series"
    /\ ScorerIdle
    /\ df \in LongSeriesInputs
    /\ df_before = df
    /\ fill_method_pad \in BOOLEAN
    /\ technical_indicators = << >>
    /\ llm_client \in {"none", "client"}
    /\ insights = NoInsights
    /\ steps = << >>
    /\ llm_calls = 0
    /\ PortfolioIdle

SpecLongSeries == InitLongSeries /\ [][NextEngine]_vars

-----------------------------------------------------------------------------
(* The portfolio entry points: _get_portfolio_recommendation called on a   *)
(* map of analyses, analyze_multiple_stocks called on a map of ticker data *)

MaxTickers == 10

MaxStocks == 2

\* the confidence of the BUY entries of a map, and of its other entries
BuyConfidenceInputs == {Rat(1, 2), Rat(7, 10), Rat(3, 4), Rat(9, 10)}

OtherConfidenceInputs == {Num(0), Rat(6, 10), Rat(7, 10)}

\* the map with `buys` BUY entries, then `sells` SELL entries, then `waits`
\* WAIT entries, tickers numbered from 1; with_key says whether the entries
\* that are not BUY carry a confidence
AnalysesOf(buys, sells, waits, buy_confidence, other_confidence, with_key) ==
    [t \in 1..(buys + sells + waits) |->
        IF t <= buys THEN [recommendation |-> "BUY", confidence |-> buy_confidence]
        ELSE IF with_key
        THEN [recommendation |-> IF t <= buys + sells THEN "SELL" ELSE "WAIT",
              confidence |-> other_confidence]
        ELSE [recommendation |-> IF t <= buys + sells THEN "SELL" ELSE "WAIT"]]

AnalysesInputs ==
    {AnalysesOf(b, x, w, bc, oc, k) :
        b \in 0..MaxTickers, x \in 0..1, w \in 0..MaxTickers,
        bc \in BuyConfidenceInputs, oc \in OtherConfidenceInputs, k \in BOOLEAN}

\* the data of one ticker: none, one Bar, rising, falling, tied timestamps, text
DataInputs ==
    {<< >>,
     <<Bar(1, Num(1), Num(10), Num(3), Num(1))>>,
     <<Bar(1, Num(1), Num(10), Num(3), Num(1)), Bar(2, Num(2), Num(10), Num(3), Num(1))>>,
     <<Bar(2, Num(1), Num(10), Num(3), Num(1)), Bar(1, Num(2), Num(10), Num(3), Num(1))>>,
     <<Bar(1, Num(1), Num(10), Num(3), Num(1)), Bar(1, Num(2), Num(10), Num(3), Num(1))>>,
     <<Bar(1, Num(2), Num(10), Num(3), Num(1)), Bar(2, Text, Text, Text, Text)>>}

StockDataInputs == UNION {[1..n -> DataInputs] : n \in 0..MaxStocks}

InitPortfolio ==
    /\ ScorerIdle
    /\ df = << >>
    /\ df_before = << >>
    /\ technical_indicators = << >>
    /\ fill_method_pad \in BOOLEAN
    /\ llm_client \in {"none", "client"}
    /\ insights = NoInsights
    /\ steps = << >>
    /\ llm_calls = 0
    /\ portfolio_recommendation = NoPortfolio
    /\ portfolio = NoPortfolio
    /\ \/ pc = "analyses" /\ analyses \in AnalysesInputs /\ stock_data_dict = << >>
       \/ pc = "stocks" /\ analyses = << >> /\ stock_data_dict \in StockDataInputs
    /\ remaining \in Permutations(1..Len(stock_data_dict))

\* a call of _get_portfolio_recommendation(analyses)
CallGetPortfolioRecommendation ==
    /\ pc = "analyses"
    /\ pc' = "portfolio_recommended"
    /\ portfolio_recommendation' = GetPortfolioRecommendation(analyses)
    /\ UNCHANGED <<analyses, stock_data_dict, remaining, portfolio, scorerVars,
                   engineVars, insightVars>>

\* LoopDone returning as soon as one ticker has been looked at
LoopDoneAfterFirst == Len(remaining) < Len(stock_data_dict) \/ remaining = << >>

\* line 371: the for loop of analyze_multiple_stocks has gone through every item
LoopDone == remaining = << >>

\* AnalyzeNextTicker analysing the tickers without data as well
AnalyzeNextTickerNoSkip ==
    /\ pc = "stocks"
    /\ ~LoopDone
    /\ LET ticker == Head(remaining)
           data   == stock_data_dict[ticker]
       IN  /\ \E a \in AnalysesOfTicker(ticker, data, fill_method_pad, llm_client) :
                  analyses' = (ticker :> a) @@ analyses
           /\ llm_calls' = llm_calls + (IF llm_client = "none" \/ Len(data) = 0 THEN 0 ELSE 1)
    /\ remaining' = Tail(remaining)
    /\ UNCHANGED <<pc, portfolio_recommendation, stock_data_dict, portfolio, scorerVars,
                   engineVars, llm_client, insights, steps>>

\* lines 371-379: one iteration of the loop of analyze_multiple_stocks, for
\* the next ticker of the dict; a ticker without data is skipped
AnalyzeNextTicker ==
    /\ pc = "stocks"
    /\ ~LoopDone
    /\ LET ticker == Head(remaining)
           data   == stock_data_dict[ticker]
       IN  IF Len(data) = 0
           THEN UNCHANGED <<analyses, llm_calls>>
           ELSE /\ \E a \in AnalysesOfTicker(ticker, data, fill_method_pad, llm_client) :
                      analyses' = (ticker :> a) @@ analyses
                /\ llm_calls' = llm_calls + (IF llm_client = "none" THEN 0 ELSE 1)
    /\ remaining' = Tail(remaining)
    /\ UNCHANGED <<pc, portfolio_recommendation, stock_data_dict, portfolio, scorerVars,
                   engineVars, llm_client, insights, steps>>

\* lines 381-399: after the loop, the counts, the sentiment and the portfolio
\* recommendation are computed from the local map and returned
ReturnPortfolio ==
    /\ pc = "stocks"
    /\ LoopDone
    /\ pc' = "portfolio_analyzed"
    /\ portfolio' = PortfolioResult(analyses)
    /\ UNCHANGED <<analyses, portfolio_recommendation, stock_data_dict, remaining,
                   scorerVars, engineVars, insightVars>>

NextPortfolio == CallGetPortfolioRecommendation \/ AnalyzeNextTicker \/ ReturnPortfolio

SpecPortfolio == InitPortfolio /\ [][NextPortfolio]_vars

-----------------------------------------------------------------------------
(* Properties of the scorer, checked under SpecScorer                      *)

Scored == pc \in {"recommended", "recommended_twice"}

\* C1: for every score the scorer computes, the action is BUY if score >= 2,
\* SELL if score <= -2 and WAIT otherwise; score 2 gives BUY, 1 gives WAIT,
\* -1 gives WAIT and -2 gives SELL.
C1_ActionFromScore ==
    Scored =>
        /\ recommendation_score >= 2 => recommendation.action = "BUY"
        /\ recommendation_score <= -2 => recommendation.action = "SELL"
        /\ (recommendation_score > -2 /\ recommendation_score < 2)
              => recommendation.action = "WAIT"
        /\ recommendation_score = 2 => recommendation.action = "BUY"
        /\ recommendation_score = 1 => recommendation.action = "WAIT"
        /\ recommendation_score = -1 => recommendation.action = "WAIT"
        /\ recommendation_score = -2 => recommendation.action = "SELL"

C1_Witness ==
    /\ pc = "recommended"
    /\ recommendation_score = -2
    /\ recommendation.action = "SELL"

\* the RSI term of the score as the claim tabulates it (a missing rsi is in no band)
C2_RsiTerm(a) ==
    \/ Lt(rsi, Num(30)) /\ a = 2
    \/ Gt(rsi, Num(70)) /\ a = -2
    \/ Le(Num(30), rsi) /\ Le(rsi, Num(50)) /\ a = 1
    \/ Lt(Num(50), rsi) /\ Le(rsi, Num(70)) /\ a = 0
    \/ IsNaN(rsi) /\ a = 0

C2_TrendTerm(b) ==
    \/ trend = "bullish" /\ b = 1
    \/ trend = "bearish" /\ b = -1
    \/ trend = "neutral" /\ b = 0

C2_ChangeTerm(c) ==
    \/ Gt(price_change, Num(5)) /\ c = -1
    \/ Lt(price_change, Num(-5)) /\ c = 1
    \/ ~Gt(price_change, Num(5)) /\ ~Lt(price_change, Num(-5)) /\ c = 0

\* C2: the score starts at 0 and is the sum of three independent terms: the RSI
\* term (+2 below 30, -2 above 70, +1 in [30,50], 0 in (50,70]), the trend term
\* (+1 bullish, -1 bearish, 0 neutral) and the 30-day-change term (-1 above 5,
\* +1 below -5, 0 otherwise), for every combination of inputs.
C2_ScoreIsSumOfTerms ==
    Scored =>
        \E a \in -2..2, b \in -1..1, c \in -1..1 :
            /\ C2_RsiTerm(a)
            /\ C2_TrendTerm(b)
            /\ C2_ChangeTerm(c)
            /\ recommendation_score = a + b + c

C2_Witness ==
    /\ pc = "recommended"
    /\ rsi = Num(30)
    /\ trend = "bullish"
    /\ Gt(price_change, Num(5))
    /\ recommendation_score = 1

\* C3: the confidence is 0.6 whenever the action is WAIT, whatever the
\* volatility; for BUY and SELL it is min(0.9, b + 0.2) where b is 0.5 reduced
\* by 0.2 exactly when volatility(%) > 3.
C3_Confidence ==
    Scored =>
        LET b == IF Gt(volatility, Num(3)) THEN Rat(3, 10) ELSE Rat(1, 2)
            boosted == Add(b, Rat(1, 5))
        IN  /\ recommendation.action = "WAIT" => recommendation.confidence = Rat(6, 10)
            /\ recommendation.action \in {"BUY", "SELL"} =>
                  recommendation.confidence =
                      (IF Lt(boosted, Rat(9, 10)) THEN boosted ELSE Rat(9, 10))

C3_Witness ==
    /\ pc = "recommended"
    /\ Gt(volatility, Num(3))
    /\ recommendation.action = "WAIT"
    /\ recommendation.confidence = Rat(6, 10)

C15_HoldingPeriod ==
    Scored =>
        /\ (recommendation.action = "BUY" /\ Lt(volatility, Num(2)))
              => recommendation.holding_period = "medium-term (1-4 weeks)"
        /\ (recommendation.action = "BUY" /\ Ge(volatility, Num(2)))
              => recommendation.holding_period = "short-term (1-7 days)"
        /\ recommendation.action = "SELL"
              => recommendation.holding_period = "immediate"
        /\ recommendation.action = "WAIT"
              => recommendation.holding_period = "monitor for 1-2 weeks"
        /\ recommendation.holding_period \in
              {"medium-term (1-4 weeks)", "short-term (1-7 days)", "immediate",
               "monitor for 1-2 weeks"}

C15_Witness ==
    /\ pc = "recommended"
    /\ volatility = Num(2)
    /\ recommendation.action = "BUY"
    /\ recommendation.holding_period = "short-term (1-7 days)"

\* bearish < neutral < bullish
TrendRank(t) == IF t = "bearish" THEN 0 ELSE IF t = "neutral" THEN 1 ELSE 2

\* C14: scoring is monotone in trend: for fixed rsi and 30-day change the
\* score with trend bullish is at least the score with trend neutral, which is
\* at least the score with trend bearish; changing the trend from bearish to
\* bullish never decreases the score.
C14_ScoreMonotoneInTrend ==
    pc = "recommended_other_trend" =>
        /\ TrendRank(trend) <= TrendRank(trend2)
              => recommendation_score <= recommendation_score2
        /\ TrendRank(trend) >= TrendRank(trend2)
              => recommendation_score >= recommendation_score2

C14_Witness ==
    /\ pc = "recommended_other_trend"
    /\ trend = "bearish"
    /\ trend2 = "bullish"
    /\ recommendation_score = -1
    /\ recommendation_score2 = 1
    /\ recommendation.action = "WAIT"
    /\ recommendation2.action = "WAIT"

-----------------------------------------------------------------------------
(* Properties of generate_market_insights, checked under SpecInsights      *)

\* C4: for all inputs (any rsi, trend, 30-day change and volatility, and the
\* empty-input sentinel) the confidence returned lies in [0, 0.9].
C4_ConfidenceInRange ==
    pc = "insights" =>
        /\ Le(Num(0), insights.confidence)
        /\ Le(insights.confidence, Rat(9, 10))

C4_Witness ==
    /\ pc = "insights"
    /\ Len(technical_indicators) > 0
    /\ Gt(insights.volatility, Num(3))
    /\ insights.recommendation = "SELL"
    /\ insights.confidence = Rat(1, 2)

\* C6: on an empty IndicatorSeries generate_market_insights returns the
\* sentinel (WAIT, confidence 0.0, an error marker), and the check comes before
\* any other step: no metric is computed, no prompt is built and the LLM
\* provider is not called.
C6_EmptyFrameSentinelFirst ==
    (pc = "insights" /\ Len(technical_indicators) = 0) =>
        /\ insights.recommendation = "WAIT"
        /\ insights.confidence = Num(0)
        /\ "error" \in DOMAIN insights
        /\ steps = <<"check_empty">>
        /\ llm_calls = 0

C6_Witness ==
    /\ pc = "insights"
    /\ Len(technical_indicators) = 0
    /\ llm_client = "client"
    /\ insights = InsufficientData

\* C16: the external LLM call never fails the deterministic scoring path: for
\* every outcome of the narrative provider (client not configured, call
\* raises, call returns text) generate_market_insights on a non-empty
\* IndicatorSeries returns normally, with the same recommendation, confidence
\* and holding_period in all outcomes; when the client is not configured the
\* narrative is the fixed fallback string.
C16_LlmNeverFailsScoring ==
    (pc = "insights" /\ Len(technical_indicators) > 0) =>
        /\ "error" \notin DOMAIN insights
        /\ "holding_period" \in DOMAIN insights
        /\ \A client \in {"none", "client"}, response \in LlmResponses :
              LET other == GenerateMarketInsights(Ticker, technical_indicators,
                                                  client, response).value
              IN  /\ "holding_period" \in DOMAIN other
                  /\ other.recommendation = insights.recommendation
                  /\ other.confidence = insights.confidence
                  /\ other.holding_period = insights.holding_period
        /\ llm_client = "none"
              => insights.llm_insights
                    = "LLM not configured. Using rule-based analysis only."

C16_Witness ==
    /\ pc = "insights"
    /\ Len(technical_indicators) > 0
    /\ llm_client = "client"
    /\ insights.llm_insights = "LLM analysis unavailable: error"
    /\ insights.recommendation = "BUY"
    /\ insights.confidence = Rat(7, 10)

-----------------------------------------------------------------------------
(* Properties of calculate_technical_indicators, checked under SpecEngine  *)

Computed == pc \in {"indicators", "insights"}

\* row `row` of the result is the Bar `bar` of the input, coerced
RowOfBar(row, bar) ==
    /\ row.timestamp = bar.timestamp
    /\ row.close = ToNumeric(bar.close)
    /\ row.volume = ToNumeric(bar.volume)
    /\ row.high = ToNumeric(bar.high)
    /\ row.low = ToNumeric(bar.low)

\* C7: for every Series of length N >= 0 the result has exactly N rows, one per
\* input Bar, none dropped for an insufficient window; for N = 0 the result is
\* an empty IndicatorSeries.
C7_OneRowPerBar ==
    Computed =>
        /\ Len(technical_indicators) = Len(df_before)
        /\ \E p \in Permutations(1..Len(df_before)) :
              \A i \in 1..Len(df_before) :
                  RowOfBar(technical_indicators[i], df_before[p[i]])
        /\ Len(df_before) = 0 => technical_indicators = << >>

C7_Witness ==
    /\ pc = "indicators"
    /\ Len(df_before) = 3
    /\ Len(technical_indicators) = 3
    /\ IsNaN(technical_indicators[1].rsi)
    /\ IsNaN(technical_indicators[2].close)

\* C17: every row of the IndicatorSeries carries exactly one trend label from
\* {bullish, bearish, neutral}, decided from that row alone: bullish if and
\* only if close > sma_20, bearish if and only if close < sma_20, and neutral
\* otherwise.
C17_TrendLabel ==
    Computed =>
        \A i \in 1..Len(technical_indicators) :
            LET row == technical_indicators[i]
            IN  /\ row.trend \in {"bullish", "bearish", "neutral"}
                /\ row.trend = "bullish" <=> Gt(row.close, row.sma_20)
                /\ row.trend = "bearish" <=> Lt(row.close, row.sma_20)
                /\ row.trend = "neutral"
                      <=> (~Gt(row.close, row.sma_20) /\ ~Lt(row.close, row.sma_20))

C17_Witness ==
    /\ pc = "indicators"
    /\ Len(technical_indicators) = 3
    /\ technical_indicators[1].trend = "neutral"
    /\ technical_indicators[2].trend = "bullish"
    /\ technical_indicators[3].trend = "bearish"
    /\ technical_indicators[3].close = Num(1)
    /\ technical_indicators[3].sma_20 = Rat(4, 3)

\* C19: calculate_technical_indicators does not mutate its input: after the
\* call the caller's Series holds the same Bars, with the same field values
\* (text values included) and in the same order, as before the call.
C19_InputNotMutated ==
    Computed =>
        /\ Len(df) = Len(df_before)
        /\ \A i \in 1..Len(df_before) : df[i] = df_before[i]

\* the sum of the numeric closes among rows first..last of the result, and their number
RECURSIVE PresentCloses(_, _, _)
PresentCloses(rows, first, last) ==
    IF last < first THEN [sum |-> Num(0), count |-> 0]
    ELSE LET rest == PresentCloses(rows, first, last - 1)
         IN  IF IsNaN(rows[last].close) THEN rest
             ELSE [sum |-> Add(rest.sum, rows[last].close), count |-> rest.count + 1]

\* C21: a Bar whose close, volume, high or low is non-numeric never makes the
\* engine raise: the value is coerced to missing, the row is kept, and each
\* windowed mean (sma_20) of a later row equals the mean of the non-missing
\* values in its window, the missing value being excluded rather than counted
\* as zero.
C21_MissingExcludedFromMeans ==
    Computed =>
        /\ Len(technical_indicators) = Len(df_before)
        /\ \A i \in 1..Len(df_before) :
              /\ df_before[i].close = Text => \E j \in 1..Len(technical_indicators) :
                    /\ technical_indicators[j].timestamp = df_before[i].timestamp
                    /\ IsNaN(technical_indicators[j].close)
              /\ df_before[i].volume = Text => \E j \in 1..Len(technical_indicators) :
                    /\ technical_indicators[j].timestamp = df_before[i].timestamp
                    /\ IsNaN(technical_indicators[j].volume)
                    /\ IsNaN(technical_indicators[j].high)
                    /\ IsNaN(technical_indicators[j].low)
        /\ \A i \in 1..Len(technical_indicators) :
              LET first   == IF i - 19 < 1 THEN 1 ELSE i - 19
                  present == PresentCloses(technical_indicators, first, i)
              IN  IF present.count = 0 THEN IsNaN(technical_indicators[i].sma_20)
                  ELSE technical_indicators[i].sma_20
                          = Div(present.sum, Num(present.count))

C21_Witness ==
    /\ pc = "indicators"
    /\ Len(technical_indicators) = 3
    /\ \E i \in 1..3 : df_before[i].close = Text
    /\ technical_indicators[1].close = Num(1)
    /\ IsNaN(technical_indicators[2].close)
    /\ technical_indicators[3].close = Num(2)
    /\ technical_indicators[3].sma_20 = Rat(3, 2)

\* every close of the result is a finite number
NumericCloses(rows) == \A i \in 1..Len(rows) : IsFin(rows[i].close)

\* C22: for every Series with finite numeric closes, the rsi of every row
\* where it is defined lies in the closed interval [0, 100].
C22_RsiInRange ==
    (Computed /\ NumericCloses(technical_indicators)) =>
        \A i \in 1..Len(technical_indicators) :
            \/ IsNaN(technical_indicators[i].rsi)
            \/ /\ Le(Num(0), technical_indicators[i].rsi)
               /\ Le(technical_indicators[i].rsi, Num(100))

C22_Witness ==
    /\ pc = "indicators"
    /\ NumericCloses(technical_indicators)
    /\ Len(technical_indicators) = 3
    /\ IsNaN(technical_indicators[1].rsi)
    /\ technical_indicators[2].rsi = Num(100)
    /\ technical_indicators[3].rsi = Num(50)

\* a * x + (1 - a) * previous with a = 2 / (span + 1)
Smoothed(span, x, previous) ==
    Add(Mul(Alpha(span), x), Mul(Sub(Num(1), Alpha(span)), previous))

\* row i follows the smoothing rule in its ema_12, ema_26 and macd_signal
FollowsSmoothing(rows, i) ==
    /\ rows[i].ema_12 = Smoothed(12, rows[i].close, rows[i - 1].ema_12)
    /\ rows[i].ema_26 = Smoothed(26, rows[i].close, rows[i - 1].ema_26)
    /\ rows[i].macd_signal = Smoothed(9, rows[i].macd, rows[i - 1].macd_signal)

\* C25: exponential averages are seeded by the first value with no bias
\* adjustment: on the first row ema_12 = ema_26 = close, and on every later
\* row (here: every later row whose close is a number, the rule having no
\* value otherwise) ema_span = a * close + (1 - a) * ema_span of the row
\* before, a = 2 / (span + 1); macd_signal follows the same rule over macd
\* with span 9, so on the first row macd, macd_signal and macd_histogram are
\* 0, and on every row macd_histogram = macd - macd_signal.
C25_ExponentialSmoothing ==
    (Computed /\ Len(technical_indicators) > 0) =>
        /\ technical_indicators[1].ema_12 = technical_indicators[1].close
        /\ technical_indicators[1].ema_26 = technical_indicators[1].close
        /\ IsFin(technical_indicators[1].close) =>
              /\ technical_indicators[1].macd = Num(0)
              /\ technical_indicators[1].macd_signal = Num(0)
              /\ technical_indicators[1].macd_histogram = Num(0)
        /\ \A i \in 2..Len(technical_indicators) :
              IsFin(technical_indicators[i].close) =>
                  FollowsSmoothing(technical_indicators, i)
        /\ \A i \in 1..Len(technical_indicators) :
              technical_indicators[i].macd_histogram =
                  Sub(technical_indicators[i].macd, technical_indicators[i].macd_signal)

\* the rule of C25 holds on every series whose closes are all numbers
C25_SmoothingOfNumericCloses ==
    (Computed /\ NumericCloses(technical_indicators)) => C25_ExponentialSmoothing

\* after a missing close the average is not the one the rule gives: the
\* past has aged by two rows
C25_AgedAcrossMissingClose ==
    /\ pc = "indicators"
    /\ Len(technical_indicators) = 3
    /\ technical_indicators[1].close = Num(1)
    /\ IsNaN(technical_indicators[2].close)
    /\ technical_indicators[3].close = Num(2)
    /\ technical_indicators[2].ema_12 = Num(1)
    /\ technical_indicators[3].ema_12 = Rat(173, 147)
    /\ Smoothed(12, Num(2), Num(1)) = Rat(15, 13)

\* C26: for a window holding a single sample the Bollinger standard deviation
\* is 0: on the first row of every non-empty series with a numeric close,
\* bb_upper = bb_lower = bb_middle = the first close, none of them missing.
C26_SingleSampleBandsCollapse ==
    (/\ Computed
     /\ Len(technical_indicators) > 0
     /\ NumericCloses(technical_indicators)) =>
        /\ technical_indicators[1].bb_middle = technical_indicators[1].close
        /\ technical_indicators[1].bb_upper = technical_indicators[1].close
        /\ technical_indicators[1].bb_lower = technical_indicators[1].close
        /\ IsFin(technical_indicators[1].bb_upper)
        /\ IsFin(technical_indicators[1].bb_lower)

\* the first row of a series of numeric closes has its middle band at the
\* close and both outer bands missing
C26_FirstRowBandsMissing ==
    (/\ Computed
     /\ Len(technical_indicators) > 0
     /\ NumericCloses(technical_indicators)) =>
        /\ technical_indicators[1].bb_middle = technical_indicators[1].close
        /\ IsNaN(technical_indicators[1].bb_upper)
        /\ IsNaN(technical_indicators[1].bb_lower)

\* what a series of one Bar comes to: the row and the insights
SingleBarOutcome ==
    /\ Computed =>
          /\ Len(technical_indicators) = 1
          /\ IsNaN(technical_indicators[1].rsi)
          /\ IsNaN(technical_indicators[1].price_change)
          /\ IsNaN(technical_indicators[1].volatility)
          /\ technical_indicators[1].trend = "neutral"
    /\ pc = "insights" =>
          /\ "error" \notin DOMAIN insights
          /\ IsNaN(insights.rsi)
          /\ IsNaN(insights.volatility)
          /\ ScoreAfterRsi(0, insights.rsi) = 0
          /\ ConfidenceAfterVolatility(insights.volatility) = Rat(1, 2)
          /\ insights.price_change_30d = Num(0)
          /\ RecommendationScore(insights.rsi, insights.trend,
                                 insights.price_change_30d) = 0
          /\ insights.recommendation = "WAIT"
          /\ insights.confidence = Rat(3, 5)
          /\ insights.holding_period = "monitor for 1-2 weeks"

\* C30: for a series of exactly one Bar with a numeric close the pipeline does
\* not raise: the single row has missing rsi, price_change and volatility and
\* trend neutral; in the scorer no RSI rule fires and no volatility penalty
\* applies to the missing values, price_change_30d is 0, the score is 0, and
\* the result is WAIT with confidence 0.6 and holding period "monitor for 1-2
\* weeks".
C30_SingleBarGivesWait ==
    (/\ Len(df_before) = 1
     /\ IsFin(ToNumeric(df_before[1].close))) => SingleBarOutcome

\* C30 as it holds: the same for a series of exactly one Bar whose close is a
\* number other than 0 (for a close of 0 the 30-day change is 0 / 0, missing;
\* the result is WAIT at 0.6 all the same).
C30_SingleBarOfNonzeroCloseGivesWait ==
    /\ (/\ Len(df_before) = 1
        /\ IsFin(ToNumeric(df_before[1].close))
        /\ ToNumeric(df_before[1].close) # Num(0)) => SingleBarOutcome
    /\ (/\ Len(df_before) = 1
        /\ ToNumeric(df_before[1].close) = Num(0)
        /\ pc = "insights") =>
            /\ IsNaN(insights.price_change_30d)
            /\ insights.recommendation = "WAIT"
            /\ insights.confidence = Rat(3, 5)

C30_Witness ==
    /\ pc = "insights"
    /\ df_before = SeriesOf(<<100>>)
    /\ technical_indicators[1].close = Num(100)
    /\ IsNaN(technical_indicators[1].rsi)
    /\ insights.current_price = Num(100)
    /\ insights.price_change_30d = Num(0)
    /\ insights.recommendation = "WAIT"
    /\ insights.confidence = Rat(3, 5)

\* one Bar with a close of 0
C30_ZeroCloseWitness ==
    /\ pc = "insights"
    /\ df_before = SeriesOf(<<0>>)
    /\ IsNaN(insights.price_change_30d)

\* C8: for every ordering of the input Bars the result equals the result for
\* the series sorted ascending by timestamp with a stable sort (Bars with
\* equal timestamps keep their original relative order), so the rows are
\* ascending by timestamp and independent of the caller's ordering.
C8_ResultIsThatOfStableSort ==
    Computed =>
        /\ technical_indicators =
              CalculateTechnicalIndicators(df_before, StableOrder(df_before),
                                           fill_method_pad)
        /\ \A i, j \in 1..Len(technical_indicators) :
              i < j => technical_indicators[i].timestamp
                         <= technical_indicators[j].timestamp

-----------------------------------------------------------------------------
(* Properties of the engine on long series, checked under SpecLongSeries   *)

\* the closes of the rows of the result are all the same number
ConstantPrice(rows) ==
    \A i \in 1..Len(rows) : IsFin(rows[i].close) /\ rows[i].close = rows[1].close

\* the 14-row mean loss of row i of the result
MeanLoss(rows, i) == RollingMean(Loss(Column(rows, "close")), RsiWindow, i)

\* C12: whenever the 14-period mean loss of a row is 0 the engine does not
\* raise and rsi of that row is 100; in particular for a constant-price series
\* of at least 20 rows rsi is 100 on every row after the first.
C12_RsiIs100WhenNoLoss ==
    Computed =>
        /\ \A i \in 1..Len(technical_indicators) :
              MeanLoss(technical_indicators, i) = Num(0)
                  => technical_indicators[i].rsi = Num(100)
        /\ (Len(technical_indicators) >= 20 /\ ConstantPrice(technical_indicators))
              => \A i \in 2..Len(technical_indicators) :
                    technical_indicators[i].rsi = Num(100)

\* a == b on floats: false when either side is NaN
SameNumber(a, b) == ~IsNaN(a) /\ ~IsNaN(b) /\ a = b

\* C18: for a constant-price series (all closes equal, N >= 20) every row of
\* the IndicatorSeries, including the first, has bb_upper == bb_lower ==
\* bb_middle and trend neutral.
C18_ConstantSeriesBandsCollapse ==
    (Computed /\ Len(technical_indicators) >= 20 /\ ConstantPrice(technical_indicators))
        => \A i \in 1..Len(technical_indicators) :
              /\ SameNumber(technical_indicators[i].bb_upper,
                            technical_indicators[i].bb_middle)
              /\ SameNumber(technical_indicators[i].bb_lower,
                            technical_indicators[i].bb_middle)
              /\ technical_indicators[i].trend = "neutral"

\* the same on every row after the first
C18_BandsCollapseAfterFirstRow ==
    (Computed /\ Len(technical_indicators) >= 20 /\ ConstantPrice(technical_indicators))
        => /\ \A i \in 2..Len(technical_indicators) :
                 /\ SameNumber(technical_indicators[i].bb_upper,
                               technical_indicators[i].bb_middle)
                 /\ SameNumber(technical_indicators[i].bb_lower,
                               technical_indicators[i].bb_middle)
           /\ \A i \in 1..Len(technical_indicators) :
                 technical_indicators[i].trend = "neutral"

\* the mean of the closes of rows max(1, i - size + 1)..i of the result
MeanOfCloses(rows, i, size) ==
    LET present == PresentCloses(rows, IF i - size + 1 < 1 THEN 1 ELSE i - size + 1, i)
    IN  Div(present.sum, Num(present.count))

\* C24: moving averages use partial windows at the start: for every row i,
\* sma_20 is the mean of the closes of the rows from 19 rows back (or the
\* first row) to i, and sma_50 that of the rows from 49 rows back (or the
\* first row) to i, so on the first row sma_20 = sma_50 = close and neither is
\* ever missing for a numeric close.
C24_PartialWindowAverages ==
    (Computed /\ NumericCloses(technical_indicators)) =>
        /\ \A i \in 1..Len(technical_indicators) :
              /\ technical_indicators[i].sma_20 = MeanOfCloses(technical_indicators, i, 20)
              /\ technical_indicators[i].sma_50 = MeanOfCloses(technical_indicators, i, 50)
              /\ IsFin(technical_indicators[i].sma_20)
              /\ IsFin(technical_indicators[i].sma_50)
        /\ Len(technical_indicators) > 0 =>
              /\ technical_indicators[1].sma_20 = technical_indicators[1].close
              /\ technical_indicators[1].sma_50 = technical_indicators[1].close

C24_Witness ==
    /\ pc = "indicators"
    /\ df_before = SeriesOf(Wavering)
    /\ technical_indicators[1].sma_50 = Num(107)
    /\ technical_indicators[19].sma_20 = MeanOfCloses(technical_indicators, 19, 19)
    /\ technical_indicators[55].sma_20 = MeanOfCloses(technical_indicators, 55, 20)
    /\ technical_indicators[55].sma_50 = MeanOfCloses(technical_indicators, 55, 50)
    /\ technical_indicators[55].sma_50 # MeanOfCloses(technical_indicators, 55, 55)
    /\ technical_indicators[55].sma_20 # technical_indicators[55].sma_50

\* the result has 30 rows whose closes strictly increase from 100 to 150
Rising100To150(rows) ==
    /\ Len(rows) = 30
    /\ rows[1].close = Num(100)
    /\ rows[30].close = Num(150)
    /\ \A i \in 1..29 : Lt(rows[i].close, rows[i + 1].close)

\* C13: end to end, for a Series of 30 rows whose closes strictly increase
\* from 100 to 150 the final row has rsi > 70 and trend bullish, the 30-day
\* change exceeds 5%, the net score is at most -2 and the action is SELL.
C13_RisingSeriesGivesSell ==
    (pc = "insights" /\ Rising100To150(technical_indicators)) =>
        /\ Gt(technical_indicators[30].rsi, Num(70))
        /\ technical_indicators[30].trend = "bullish"
        /\ insights.rsi = technical_indicators[30].rsi
        /\ insights.trend = "bullish"
        /\ Gt(insights.price_change_30d, Num(5))
        /\ RecommendationScore(insights.rsi, insights.trend,
                               insights.price_change_30d) <= -2
        /\ insights.recommendation = "SELL"

C13_Witness ==
    /\ pc = "insights"
    /\ df_before = Reversed(SeriesOf(RisingLate))
    /\ Rising100To150(technical_indicators)
    /\ insights.price_change_30d = Num(50)
    /\ insights.recommendation = "SELL"
    /\ insights.confidence = Rat(1, 2)

\* the first row of the window made of the last min(30, N) rows of N
OldestOfLast30(N) == N - (IF N < 30 THEN N ELSE 30) + 1

\* C27: price_change_30d is the percentage change from the close of the
\* oldest row of the window made of the last min(30, N) rows to the close of
\* the latest row, 100 * (close_latest - close_oldest) / close_oldest; for a
\* series with a single row it is 0.
C27_PriceChangeOverLast30 ==
    (pc = "insights" /\ Len(technical_indicators) > 0) =>
        LET N == Len(technical_indicators)
            close_latest == technical_indicators[N].close
            close_oldest == technical_indicators[OldestOfLast30(N)].close
        IN  /\ insights.price_change_30d =
                  Div(Mul(Num(100), Sub(close_latest, close_oldest)), close_oldest)
            /\ N = 1 => insights.price_change_30d = Num(0)

\* 55 rows: the window starts at row 26 (close 100) and ends at row 55 (close
\* 108); the first row of the series has close 107
C27_Witness ==
    /\ pc = "insights"
    /\ df_before = SeriesOf(Wavering)
    /\ OldestOfLast30(Len(technical_indicators)) = 26
    /\ technical_indicators[1].close = Num(107)
    /\ technical_indicators[26].close = Num(100)
    /\ technical_indicators[55].close = Num(108)
    /\ insights.price_change_30d = Num(8)

\* C27 as it holds: price_change_30d is 100 * (close_latest - close_oldest)
\* / close_oldest over the window of the last min(30, N) rows; for a series
\* with a single row it is 0 when that row's close is a number other than 0,
\* and missing when the close is missing or 0.
C27_PriceChangeOverLast30OfNumbers ==
    (pc = "insights" /\ Len(technical_indicators) > 0) =>
        LET N == Len(technical_indicators)
            close_latest == technical_indicators[N].close
            close_oldest == technical_indicators[OldestOfLast30(N)].close
        IN  /\ insights.price_change_30d =
                  Div(Mul(Num(100), Sub(close_latest, close_oldest)), close_oldest)
            /\ N = 1 =>
                  IF IsFin(close_latest) /\ close_latest # Num(0)
                  THEN insights.price_change_30d = Num(0)
                  ELSE IsNaN(insights.price_change_30d)

\* a series of one row has a 30-day change of 0
C27_SingleRowWitness ==
    /\ pc = "insights"
    /\ df_before = SeriesOf(<<100>>)
    /\ insights.price_change_30d = Num(0)

\* a series of one row whose close is not a number has no 30-day change
C27_SingleTextRowWitness ==
    /\ pc = "insights"
    /\ Len(df_before) = 1
    /\ df_before[1].close = Text
    /\ IsNaN(insights.price_change_30d)

-----------------------------------------------------------------------------
(* Properties of the portfolio aggregation, checked under SpecPortfolio    *)

\* buy_ratio > num/10, < num/10, from the counts (buy_ratio is 0 for an empty map)
RatioAbove(buys, total, num) == total > 0 /\ 10 * buys > num * total

RatioBelow(buys, total, num) == IF total > 0 THEN 10 * buys < num * total ELSE 0 < num

\* C9: the portfolio action is chosen by an ordered ladder, first match wins:
\* AGGRESSIVE_BUY if buy_ratio > 0.6 and avg_confidence > 0.7; otherwise
\* MODERATE_BUY if buy_ratio > 0.4; otherwise DEFENSIVE if buy_ratio < 0.3;
\* otherwise WAIT.  Hence every buy_ratio in [0.3, 0.4] gives WAIT, a buy_ratio
\* above 0.6 with avg_confidence at most 0.7 gives MODERATE_BUY, and 7 BUY out
\* of 10 tickers with average confidence above 0.7 gives AGGRESSIVE_BUY.
C9_PortfolioLadder ==
    pc = "portfolio_recommended" =>
        LET total == Cardinality(DOMAIN analyses)
            buys  == CountOf(analyses, "BUY")
            avg   == AvgConfidence(analyses)
            act   == portfolio_recommendation.action
            aggressive == RatioAbove(buys, total, 6) /\ Gt(avg, Rat(7, 10))
            moderate   == ~aggressive /\ RatioAbove(buys, total, 4)
            defensive  == ~aggressive /\ ~moderate /\ RatioBelow(buys, total, 3)
        IN  /\ aggressive => act = "AGGRESSIVE_BUY"
            /\ moderate => act = "MODERATE_BUY"
            /\ defensive => act = "DEFENSIVE"
            /\ (~aggressive /\ ~moderate /\ ~defensive) => act = "WAIT"
            /\ (total > 0 /\ 3 * total <= 10 * buys /\ 10 * buys <= 4 * total)
                  => act = "WAIT"
            /\ (RatioAbove(buys, total, 6) /\ Le(avg, Rat(7, 10)))
                  => act = "MODERATE_BUY"
            /\ (buys = 7 /\ total = 10 /\ Gt(avg, Rat(7, 10)))
                  => act = "AGGRESSIVE_BUY"

C9_Witness ==
    /\ pc = "portfolio_recommended"
    /\ Cardinality(DOMAIN analyses) = 10
    /\ CountOf(analyses, "BUY") = 7
    /\ CountOf(analyses, "WAIT") = 3
    /\ AvgConfidence(analyses) = Rat(705, 1000)
    /\ portfolio_recommendation.action = "AGGRESSIVE_BUY"

\* C11: for every map of recommendations analyze_multiple_stocks builds, the
\* summary's buy, sell and wait counts are the numbers of entries whose action
\* is BUY, SELL and WAIT, and overall_sentiment is bullish if buyCount >
\* sellCount, bearish if sellCount > buyCount and neutral when they are equal.
C11_CountsAndSentiment ==
    pc = "portfolio_analyzed" =>
        LET map     == portfolio.individual_analyses
            summary == portfolio.portfolio_summary
            buys    == Cardinality({t \in DOMAIN map : map[t].recommendation = "BUY"})
            sells   == Cardinality({t \in DOMAIN map : map[t].recommendation = "SELL"})
            waits   == Cardinality({t \in DOMAIN map : map[t].recommendation = "WAIT"})
        IN  /\ summary.buy_recommendations = buys
            /\ summary.sell_recommendations = sells
            /\ summary.wait_recommendations = waits
            /\ buys > sells => summary.overall_sentiment = "bullish"
            /\ sells > buys => summary.overall_sentiment = "bearish"
            /\ buys = sells => summary.overall_sentiment = "neutral"

C11_Witness ==
    /\ pc = "portfolio_analyzed"
    /\ portfolio.portfolio_summary.buy_recommendations = 1
    /\ portfolio.portfolio_summary.sell_recommendations = 1
    /\ portfolio.portfolio_summary.overall_sentiment = "neutral"

\* the tickers of the input that have data
TickersWithData == {t \in DOMAIN stock_data_dict : Len(stock_data_dict[t]) > 0}

\* C20: in analyze_multiple_stocks the aggregation is a barrier: the portfolio
\* counts, overall sentiment and portfolio recommendation are computed only
\* after the per-ticker analysis of every ticker of the input has finished,
\* never from a partial set of recommendations.
C20_AggregationIsBarrier ==
    /\ (pc = "stocks" /\ remaining # << >>) => portfolio = NoPortfolio
    /\ pc = "portfolio_analyzed" =>
          /\ remaining = << >>
          /\ DOMAIN portfolio.individual_analyses = TickersWithData
          /\ \A t \in TickersWithData :
                /\ portfolio.individual_analyses[t].ticker = t
                /\ portfolio.individual_analyses[t].recommendation
                      \in {"BUY", "SELL", "WAIT"}
          /\ portfolio.portfolio_summary.total_stocks = Cardinality(TickersWithData)
          /\ portfolio.portfolio_summary.buy_recommendations
                + portfolio.portfolio_summary.sell_recommendations
                + portfolio.portfolio_summary.wait_recommendations
                = Cardinality(TickersWithData)

C20_Witness ==
    /\ pc = "portfolio_analyzed"
    /\ Len(stock_data_dict) = 2
    /\ TickersWithData = {1, 2}
    /\ portfolio.portfolio_summary.total_stocks = 2
    /\ portfolio.individual_analyses[1].recommendation = "BUY"
    /\ portfolio.individual_analyses[2].recommendation = "SELL"

\* the recommendations the data of ticker t can give, whatever was analysed before
RecommendationsOf(t) ==
    {GenerateMarketInsights(t, CalculateTechnicalIndicators(stock_data_dict[t], order,
                                                            fill_method_pad),
                            "none", "raises").value.recommendation :
        order \in SortOrders(stock_data_dict[t])}

\* C23: the result of analyze_multiple_stocks does not depend on the order in
\* which the tickers are processed: for every permutation of the same
\* ticker-to-data map each ticker's recommendation, the BUY/SELL/WAIT counts,
\* the overall sentiment and the portfolio action are the same.
C23_TickerOrderIndependent ==
    pc = "portfolio_analyzed" =>
        LET map == portfolio.individual_analyses
        IN  /\ \A t \in DOMAIN map : map[t].recommendation \in RecommendationsOf(t)
            /\ portfolio.portfolio_summary = PortfolioSummary(map)
            /\ portfolio.portfolio_recommendation = GetPortfolioRecommendation(map)

C23_Witness ==
    /\ pc = "portfolio_analyzed"
    /\ Len(stock_data_dict) = 2
    /\ Len(stock_data_dict[1]) = 2
    /\ Len(stock_data_dict[2]) = 1
    /\ portfolio.individual_analyses[1].recommendation = "BUY"
    /\ portfolio.individual_analyses[2].recommendation = "WAIT"
    /\ portfolio.portfolio_summary.overall_sentiment = "bullish"
    /\ portfolio.portfolio_recommendation.action = "MODERATE_BUY"

C29_EmptyTickersSkipped ==
    pc = "portfolio_analyzed" =>
        LET map     == portfolio.individual_analyses
            summary == portfolio.portfolio_summary
        IN  /\ \A t \in DOMAIN stock_data_dict :
                  Len(stock_data_dict[t]) = 0 => t \notin DOMAIN map
            /\ \A t \in DOMAIN map :
                  /\ Len(stock_data_dict[t]) > 0
                  /\ map[t] # InsufficientData
                  /\ "error" \notin DOMAIN map[t]
            /\ summary.total_stocks =
                  Cardinality({t \in DOMAIN stock_data_dict : stock_data_dict[t] # << >>})
            /\ summary.total_stocks = Cardinality(DOMAIN map)
            /\ summary.buy_recommendations + summary.sell_recommendations
                  + summary.wait_recommendations = summary.total_stocks

\* one ticker without data and one with: one analysis, one stock counted
C29_Witness ==
    /\ pc = "portfolio_analyzed"
    /\ Len(stock_data_dict) = 2
    /\ stock_data_dict[1] = << >>
    /\ stock_data_dict[2] # << >>
    /\ DOMAIN portfolio.individual_analyses = {2}
    /\ portfolio.portfolio_summary.total_stocks = 1
    /\ portfolio.portfolio_summary.buy_recommendations
          + portfolio.portfolio_summary.sell_recommendations
          + portfolio.portfolio_summary.wait_recommendations = 1

\* C10: aggregating an empty map of recommendations raises no error
\* (buy_ratio is 0) and yields zero BUY/SELL/WAIT counts, overall_sentiment
\* neutral, and portfolio action WAIT.
C10_EmptyMapGivesWait ==
    /\ (pc = "portfolio_analyzed" /\ DOMAIN portfolio.individual_analyses = {}) =>
          /\ portfolio.portfolio_summary.buy_recommendations = 0
          /\ portfolio.portfolio_summary.sell_recommendations = 0
          /\ portfolio.portfolio_summary.wait_recommendations = 0
          /\ portfolio.portfolio_summary.overall_sentiment = "neutral"
          /\ portfolio.portfolio_recommendation.action = "WAIT"
    /\ (pc = "portfolio_recommended" /\ DOMAIN analyses = {}) =>
          portfolio_recommendation.action = "WAIT"

====
